---- MODULE Spec2Model ----
(***************************************************************************)
(* Model of the Destiny 1 stores service (src/app/inventory/d1-stores.ts): *)
(* the account stream, the force-reload trigger, the derived stores stream *)
(* (merge + switchMap + publishReplay(1), connectable), reloadStores'      *)
(* take(2) promise, and the loadStores cycle with its three fetches, its   *)
(* per-record conversions and its catch block.                             *)
(***************************************************************************)
EXTENDS Integers, Sequences, FiniteSets, TLC

\* ---- bounds ----
MaxCycles == 2
MaxRecords == 1
MaxPromises == 1
MaxBuckets == 2
MaxItems == 2
MaxRawStores == 3
MaxDate == 2

\* the accounts a caller or the application state can name, and "no account"
Accounts == {"A", "B"}
NoAccount == "none"

\* the three concurrent fetches of Promise.all
Fetches == {"defs", "newItems", "rawStores"}

\* a raw record is either null-like or a record
RawKinds == {"null", "raw"}

RawLists == UNION {[1..n -> RawKinds] : n \in 0..MaxRecords}

VARIABLES
  accountValue,   \* accountStream: current value of the BehaviorSubject
  connected,      \* storesStream.connect() has subscribed the source
  streamState,    \* the ReplaySubject behind publishReplay: "active"/"errored"
  active,         \* the cycle the outer switchMap is subscribed to (0: none)
  cached,         \* the ReplaySubject(1) buffer: <<>> or <<value>>
  emissions,      \* every value emitted by storesStream, in order
  promises,       \* the promises returned by reloadStores (run: the cycle
                  \* the call's trigger started, 0 if none)
  cycles,         \* the loadStores runs, in start order
  stateAccount,   \* currentAccountSelector(getState())
  stateStores,    \* storesSelector(store.getState())
  requested,      \* the account of the latest getStores(account) call
  idTracker,      \* the cycle that last called resetIdTracker (0: none)
  notifications,  \* showNotification calls
  hardErrors,     \* dispatch(error(e)) calls
  reports,        \* reportException calls
  lastSettled,    \* the cycle whose promise settled most recently (0: none)
  settling,       \* the cycles whose body has returned and whose promise has
                  \* yet to settle, in the order they returned
  pure            \* the arguments and the result of one call of processStore's
                  \* item handling or of findLastPlayedDate, taken on its own

serviceVars == <<accountValue, connected, streamState, active, cached, emissions,
                 promises, cycles, stateAccount, stateStores, requested,
                 idTracker, notifications, hardErrors, reports, lastSettled,
                 settling>>

vars == <<accountValue, connected, streamState, active, cached, emissions,
          promises, cycles, stateAccount, stateStores, requested, idTracker,
          notifications, hardErrors, reports, lastSettled, settling, pure>>

\* ---- values ----
Undefined(c) == [cycle |-> c, kind |-> "undefined", stores |-> <<>>]
StoreSet(c, s) == [cycle |-> c, kind |-> "stores", stores |-> s]
Rejection(c) == [cycle |-> c, kind |-> "rejected", stores |-> <<>>]

\* processStore: undefined for a null raw record, else the store built from
\* record i of cycle c
processStore(c, i, raw) ==
  IF raw = "null" THEN <<>> ELSE <<c, i>>

\* _.compact(rawStores.map(processStore)): the indices that yield a store
Compact(raw) == {i \in 1..Len(raw) : processStore(0, i, raw[i]) # <<>>}

\* Promise.all over the conversions has resolved
ConversionsFinishedEarly(cy) == TRUE
ConversionsFinished(cy) == Compact(cy.raw) \subseteq cy.converted

\* the stores array: one store per conversion that has produced its store,
\* in raw-record order
StoresOf(c, cy) ==
  SelectSeq([i \in 1..Len(cy.raw) |-> processStore(c, i, cy.raw[i])],
            LAMBDA s : s # <<>> /\ s[2] \in cy.converted)

\* ---- the loadStores cycle ----
\* the synchronous prefix of loadStores, up to its first await
\* (the locals of a run are kept only while the run can still read them).
\* pc is the position of the run: "platforms", "fetching" and "converting"
\* are its awaits, "returned" is the body ended with its promise yet to
\* settle, "done" is the promise settled. via tells who called loadStores:
\* the stream's switchMap or a direct dispatch. outcome and result are how
\* the body ended and what it returned ("pending" while it runs).
NewCycle(streamAcct, stAcct) ==
  [pc |-> IF stAcct = NoAccount THEN "platforms" ELSE "fetching",
   via |-> "stream",
   streamAccount |-> IF stAcct = NoAccount THEN streamAcct ELSE NoAccount,
   fetched |-> {},
   raw |-> <<>>,
   converted |-> {},
   outcome |-> "pending",
   result |-> Undefined(0)]

\* the outer switchMap: every source emission starts one run
StartRunExhaust(cys, streamAcct, stAcct) ==
  IF \E c \in 1..Len(cys) : cys[c].outcome = "pending"
  THEN cys
  ELSE Append(cys, NewCycle(streamAcct, stAcct))
StartRun(cys, streamAcct, stAcct) ==
  Append(cys, NewCycle(streamAcct, stAcct))

\* accountStream.next(account): delivered to the source subscription, if any
AccountNext(cys, conn, streamAcct, stAcct) ==
  IF conn THEN StartRun(cys, streamAcct, stAcct) ELSE cys

\* storesStream.connect(): the first call subscribes the source, and the
\* BehaviorSubject emits its current value to it; later calls do nothing
ConnectAgain(cys, conn, streamAcct, stAcct) ==
  StartRun(cys, streamAcct, stAcct)
Connect(cys, conn, streamAcct, stAcct) ==
  IF conn THEN cys ELSE StartRun(cys, streamAcct, stAcct)

\* forceReloadTrigger.next(): switchMap to accountStream.pipe(take(1)),
\* merged into the source
ForceReloadCold(cys, conn, streamAcct, stAcct) ==
  StartRun(cys, streamAcct, stAcct)
ForceReload(cys, conn, streamAcct, stAcct) ==
  IF conn THEN StartRun(cys, streamAcct, stAcct) ELSE cys

\* the stream machinery only runs while the subject has not errored
Live == streamState = "active"

\* the effects of the synchronous prefix of the runs just started: the id
\* tracker is reset and the account to fetch for is read from the state
Begun(newCycles) ==
  /\ cycles' = newCycles
  /\ idTracker' =
       IF \E c \in (Len(cycles) + 1)..Len(newCycles) : newCycles[c].pc = "fetching"
       THEN CHOOSE c \in (Len(cycles) + 1)..Len(newCycles) :
              /\ newCycles[c].pc = "fetching"
              /\ \A d \in (Len(cycles) + 1)..Len(newCycles) :
                   newCycles[d].pc = "fetching" => d <= c
       ELSE idTracker
  /\ requested' =
       IF \E c \in (Len(cycles) + 1)..Len(newCycles) : newCycles[c].pc = "fetching"
       THEN stateAccount
       ELSE requested

\* the effects of the runs started by a handler of the stream: the outer
\* switchMap subscribes to the promise of the run started last
Started(newCycles) ==
  /\ active' = IF Len(newCycles) > Len(cycles) THEN Len(newCycles) ELSE active
  /\ Begun(newCycles)

\* ---- public operations ----
getStoresStream(a) ==
  /\ Len(cycles) < MaxCycles
  /\ accountValue' = a
  /\ connected' = TRUE
  /\ LET afterNext == AccountNext(cycles, connected, a, stateAccount)
         afterConnect == Connect(afterNext, connected, a, stateAccount)
     IN Started(afterConnect)
  /\ UNCHANGED <<streamState, cached, emissions, promises, stateAccount,
                 stateStores, notifications, hardErrors, reports, lastSettled,
                 settling>>

\* storesStream.pipe(take(n)).toPromise(): the replayed value, if any, is
\* the first of the n values
TakeCountOne == 2 - 1
TakeCount == 2

Subscribe(n) ==
  [run |-> 0,
   atCall |-> Len(emissions),
   cachedAtCall |-> cached,
   remaining |-> n - Len(cached),
   state |-> IF n - Len(cached) <= 0 THEN "resolved"
             ELSE IF ~Live THEN "rejected" ELSE "pending",
   seq |-> IF n - Len(cached) <= 0 THEN Len(emissions) ELSE 0,
   value |-> IF Len(cached) > 0 THEN cached[1] ELSE Undefined(0)]

reloadStores ==
  /\ Len(promises) < MaxPromises
  /\ connected => Len(cycles) < MaxCycles
  /\ LET afterTrigger ==
           ForceReload(cycles, connected, accountValue, stateAccount)
     IN /\ promises' = Append(promises,
             [Subscribe(TakeCount) EXCEPT
                !.run = IF Len(afterTrigger) > Len(cycles)
                        THEN Len(afterTrigger) ELSE 0])
        /\ Started(afterTrigger)
  /\ UNCHANGED <<accountValue, connected, streamState, cached, emissions,
                 stateAccount, stateStores, notifications, hardErrors, reports,
                 lastSettled, settling>>

\* store.dispatch(loadStores()): the exported thunk, run without the stream;
\* nothing is subscribed to its promise
loadStores ==
  /\ Len(cycles) < MaxCycles
  /\ Begun(Append(cycles, [NewCycle(NoAccount, stateAccount) EXCEPT
                             !.via = "dispatch"]))
  /\ UNCHANGED <<accountValue, connected, streamState, active, cached,
                 emissions, promises, stateAccount, stateStores, notifications,
                 hardErrors, reports, lastSettled, settling>>

\* ---- the stream delivers a settled cycle ----
\* a take(n).toPromise() subscriber sees value v as emission number k
Next1(p, v, k) ==
  IF p.state # "pending" THEN p
  ELSE [p EXCEPT !.remaining = @ - 1,
                 !.value = v,
                 !.state = IF p.remaining - 1 = 0 THEN "resolved" ELSE "pending",
                 !.seq = IF p.remaining - 1 = 0 THEN k ELSE 0]

\* a take(n).toPromise() subscriber sees the stream fail
Error1(p) ==
  IF p.state # "pending" THEN p ELSE [p EXCEPT !.state = "rejected"]

\* the outer switchMap is still subscribed to the promise of cycle c: a later
\* source emission unsubscribes it from every earlier one
StillSubscribedMerge(c) == TRUE
StillSubscribed(c) == active = c

\* the async function returns res (or throws it): its locals are gone, its
\* promise has yet to settle
Returned(cy, how, res) ==
  [cy EXCEPT !.pc = "returned", !.outcome = how, !.result = res,
             !.streamAccount = NoAccount, !.fetched = {},
             !.raw = IF how = "ok" THEN @ ELSE <<>>,
             !.converted = IF how = "ok" THEN @ ELSE {}]

\* the body of cycle c returns res; the promise of the run settles, and
\* the stream hears of it, some microtasks later
Return(c, how, res) ==
  /\ cycles' = [cycles EXCEPT ![c] = Returned(@, how, res)]
  /\ settling' = Append(settling, c)

\* the promise of cycle c settles with the result of the body (promises
\* settle in the order the bodies returned): the outer switchMap passes the
\* result on if it is still subscribed to that promise, publishReplay(1)
\* caches it and hands it to the subscribers; a rejection tears the
\* connection down and fails the subject, which from then on hands nothing on
Settle(c) ==
  /\ settling # <<>>
  /\ Head(settling) = c
  /\ settling' = Tail(settling)
  /\ cycles' = [cycles EXCEPT ![c] = [@ EXCEPT !.pc = "done"]]
  /\ lastSettled' = c
  /\ LET res == cycles[c].result
     IN IF ~StillSubscribed(c)
        THEN UNCHANGED <<connected, active, streamState, cached, emissions,
                         promises>>
        ELSE IF res.kind = "rejected"
        THEN /\ connected' = FALSE
             /\ active' = 0
             /\ streamState' = "errored"
             /\ promises' = [k \in 1..Len(promises) |-> Error1(promises[k])]
             /\ UNCHANGED <<cached, emissions>>
        ELSE IF ~Live
        THEN \* a value reaches the stopped ReplaySubject: nobody is handed
             \* it; whether the buffer takes it depends on the rxjs build
             \* (rxjs 6 buffers before it looks at isStopped, rxjs 7 does not)
             /\ cached' \in {cached, <<res>>}
             /\ UNCHANGED <<connected, active, streamState, emissions,
                            promises>>
        ELSE /\ cached' = <<res>>
             /\ emissions' = Append(emissions, res)
             /\ promises' = [k \in 1..Len(promises) |->
                               Next1(promises[k], res, Len(emissions) + 1)]
             /\ UNCHANGED <<connected, active, streamState>>
  /\ UNCHANGED <<accountValue, stateAccount, stateStores, requested, idTracker,
                 notifications, hardErrors, reports>>

\* ---- the body of loadStores ----
\* findLastPlayedDate reads rawStore.id of every record: a null-like record
\* makes it throw
findLastPlayedDateThrows(raw) == \E i \in 1..Len(raw) : raw[i] = "null"

\* storesSelector(store.getState()).length > 0
HasStoresNever(s) == FALSE
HasStoresAlways(s) == TRUE
HasStores(s) == Len(s) > 0

\* what the catch block returns
CatchRethrows(c) == Rejection(c)
CatchResult(c) == Undefined(c)

\* the catch block of loadStores, entered by cycle c
Catch(c) ==
  /\ reports' = reports + 1
  /\ IF HasStores(stateStores)
     THEN notifications' = notifications + 1 /\ UNCHANGED hardErrors
     ELSE hardErrors' = hardErrors + 1 /\ UNCHANGED notifications
  /\ Return(c, "failed", CatchResult(c))
  /\ UNCHANGED <<stateStores, requested, idTracker, streamState, cached,
                 emissions, promises, lastSettled>>

\* a step of the cycle that neither ends it nor reaches an effect
Quiet ==
  UNCHANGED <<streamState, cached, emissions, promises, stateStores, requested,
              idTracker, notifications, hardErrors, reports, lastSettled,
              settling>>

\* await dispatch(getPlatforms()) resolves, leaving a as the current account
PlatformsResolveLoud(c, a) ==
  /\ cycles[c].pc = "platforms"
  /\ stateAccount' = a
  /\ IF a = NoAccount
     THEN Catch(c)
     ELSE /\ cycles' = [cycles EXCEPT ![c] = [@ EXCEPT !.pc = "fetching",
                                                      !.streamAccount = NoAccount]]
          /\ idTracker' = c
          /\ requested' = a
          /\ UNCHANGED <<streamState, cached, emissions, promises, lastSettled,
                         settling, stateStores, notifications, hardErrors,
                         reports>>
  /\ UNCHANGED <<accountValue, connected, active>>
PlatformsResolve(c, a) ==
  /\ cycles[c].pc = "platforms"
  /\ stateAccount' = a
  /\ IF a = NoAccount
     THEN /\ Return(c, "noaccount", Undefined(c))
          /\ UNCHANGED <<requested, idTracker>>
     ELSE /\ cycles' = [cycles EXCEPT ![c] = [@ EXCEPT !.pc = "fetching",
                                                      !.streamAccount = NoAccount]]
          /\ idTracker' = c
          /\ requested' = a
          /\ UNCHANGED settling
  /\ UNCHANGED <<accountValue, connected, active, stateStores, notifications,
                 hardErrors, reports, streamState, cached, emissions, promises,
                 lastSettled>>

\* dispatch(getPlatforms()) rejects
PlatformsReject(c) ==
  /\ cycles[c].pc = "platforms"
  /\ Catch(c)
  /\ UNCHANGED <<accountValue, connected, active, stateAccount>>

\* Promise.all over the three fetches resolves once all three have
AnyTwoFetched(got) == Cardinality(got) >= 2
AllFetched(got) == got = Fetches

\* one of the three fetches of Promise.all resolves; when the last one does,
\* rawStores is bound to raw and the cycle goes on to findLastPlayedDate and
\* the processStore calls
FetchResolve(c, f, raw) ==
  /\ cycles[c].pc = "fetching"
  /\ f \notin cycles[c].fetched
  /\ LET got == cycles[c].fetched \cup {f}
     IN IF ~AllFetched(got)
        THEN /\ raw = <<>>
             /\ cycles' = [cycles EXCEPT ![c] = [@ EXCEPT !.fetched = got]]
             /\ Quiet
        ELSE IF findLastPlayedDateThrows(raw)
        THEN Catch(c)
        ELSE /\ cycles' = [cycles EXCEPT ![c] = [@ EXCEPT !.fetched = got,
                                                         !.raw = raw,
                                                         !.pc = "converting"]]
             /\ Quiet
  /\ UNCHANGED <<accountValue, connected, active, stateAccount>>

\* one of the three fetches rejects: Promise.all rejects at once
FetchReject(c, f) ==
  /\ cycles[c].pc = "fetching"
  /\ f \notin cycles[c].fetched
  /\ Catch(c)
  /\ UNCHANGED <<accountValue, connected, active, stateAccount>>

\* processItems of record i resolves and processStore returns its store
ConvertResolve(c, i) ==
  /\ cycles[c].pc = "converting"
  /\ i \in Compact(cycles[c].raw) \ cycles[c].converted
  /\ cycles' = [cycles EXCEPT ![c] = [@ EXCEPT !.converted = @ \cup {i}]]
  /\ Quiet
  /\ UNCHANGED <<accountValue, connected, active, stateAccount>>

\* the conversion of record i rejects: Promise.all rejects at once
ConvertReject(c, i) ==
  /\ cycles[c].pc = "converting"
  /\ i \in Compact(cycles[c].raw) \ cycles[c].converted
  /\ Catch(c)
  /\ UNCHANGED <<accountValue, connected, active, stateAccount>>

\* Promise.all over the conversions resolves: cleanInfos, the style
\* property, dispatch(update({ stores })) and return stores
FinishUnlessSuperseded(c) ==
  /\ cycles[c].pc = "converting"
  /\ ConversionsFinished(cycles[c])
  /\ LET stores == StoresOf(c, cycles[c])
     IN /\ stateStores' = IF active = c THEN stores ELSE stateStores
        /\ Return(c, "ok", StoreSet(c, stores))
  /\ UNCHANGED <<accountValue, connected, active, stateAccount, requested,
                 idTracker, notifications, hardErrors, reports, streamState,
                 cached, emissions, promises, lastSettled>>
Finish(c) ==
  /\ cycles[c].pc = "converting"
  /\ ConversionsFinished(cycles[c])
  /\ LET stores == StoresOf(c, cycles[c])
     IN /\ stateStores' = stores
        /\ Return(c, "ok", StoreSet(c, stores))
  /\ UNCHANGED <<accountValue, connected, active, stateAccount, requested,
                 idTracker, notifications, hardErrors, reports, streamState,
                 cached, emissions, promises, lastSettled>>

\* ---- the environment ----
\* the application selects another current account
SelectAccount(a) ==
  /\ a # stateAccount
  /\ stateAccount' = a
  /\ UNCHANGED <<accountValue, connected, streamState, active, cached,
                 emissions, promises, cycles, stateStores, requested, idTracker,
                 notifications, hardErrors, reports, lastSettled, settling>>

\* ---- processStore after processItems, and findLastPlayedDate ----
\* bucket hashes are property keys: strings
WeaponsHash == "4046403665"
ArmorHash == "3003523923"
GeneralHash == "138197802"
vaultBucketOrder == <<WeaponsHash, ArmorHash, GeneralHash>>

\* a vault bucket that vaultBucketOrder does not list, and "no vaultBucket"
OtherVaultHash == "375726501"
NoVaultBucket == ""

\* the hash of the i-th bucket of a catalog
BucketHash(i) == ToString(i)

\* Array.prototype.indexOf: zero-based, -1 when absent
indexOf(seq, x) ==
  IF \E i \in 1..Len(seq) : seq[i] = x
  THEN (CHOOSE i \in 1..Len(seq) :
          seq[i] = x /\ \A j \in 1..(i - 1) : seq[j] # x) - 1
  ELSE -1

\* _.sortBy: ascending by key, stable; keys[i] is the key of seq[i]
sortBy(seq, keys) ==
  LET Rank(i) ==
        Cardinality({j \in 1..Len(seq) :
                       \/ keys[j] < keys[i]
                       \/ (keys[j] = keys[i] /\ j < i)}) + 1
  IN [k \in 1..Len(seq) |-> seq[CHOOSE i \in 1..Len(seq) : Rank(i) = k]]

\* _.groupBy(items, i => i.location.hash); an item is modelled by the hash
\* of its location
groupBy(items) ==
  [k \in {items[i] : i \in 1..Len(items)} |-> SelectSeq(items, LAMBDA x : x = k)]

\* "Fill in any missing buckets"
FillNone(grouped, catalog) == grouped
FillMissing(grouped, catalog) ==
  [k \in DOMAIN grouped \cup {catalog[i].hash : i \in 1..Len(catalog)} |->
     IF k \in DOMAIN grouped THEN grouped[k] ELSE <<>>]

\* the buckets vaultCounts is built from, in the order they are visited
VisitOrder(catalog) ==
  LET declaring == SelectSeq(catalog, LAMBDA b : b.vaultBucket # NoVaultBucket)
  IN sortBy(declaring,
            [i \in 1..Len(declaring) |->
               indexOf(vaultBucketOrder, declaring[i].vaultBucket)])

\* vaultCounts[vaultBucketId].count += store.buckets[bucket.hash].length
SetCount(count, n) == n
AddCount(count, n) == count + n

\* one step of the forEach over the visited buckets
CountBucket(counts, bucket, buckets) ==
  LET id == bucket.vaultBucket
      entry == IF id \in DOMAIN counts THEN counts[id]
               ELSE [count |-> 0,
                     bucket |-> IF bucket.accountWide THEN bucket.hash ELSE id]
  IN [x \in DOMAIN counts \cup {id} |->
        IF x = id
        THEN [entry EXCEPT !.count = AddCount(@, Len(buckets[bucket.hash]))]
        ELSE counts[x]]

RECURSIVE CountFrom(_, _, _, _)
CountFrom(order, k, counts, buckets) ==
  IF k > Len(order) THEN counts
  ELSE CountFrom(order, k + 1, CountBucket(counts, order[k], buckets), buckets)

\* the function passed to processItems(...).then in processStore
ProcessedStore(isVault, catalog, items) ==
  LET buckets == FillMissing(groupBy(items), catalog)
      order == IF isVault THEN VisitOrder(catalog) ELSE <<>>
  IN [buckets |-> buckets,
      visit |-> order,
      vaultCounts |-> CountFrom(order, 1, [x \in {} |-> 0], buckets)]

\* new Date(0)
Epoch == 0

\* memo ? (d1 >= memo ? d1 : memo) : d1, memo being a Date (always truthy)
Earlier(d1, memo) == IF d1 <= memo THEN d1 ELSE memo
Later(d1, memo) == IF d1 >= memo THEN d1 ELSE memo

RECURSIVE reduceFrom(_, _, _)
reduceFrom(rawStores, k, memo) ==
  IF k > Len(rawStores) THEN memo
  ELSE reduceFrom(rawStores, k + 1,
                  IF rawStores[k].id = "vault" THEN memo
                  ELSE Later(rawStores[k].dateLastPlayed, memo))

findLastPlayedDate(rawStores) == reduceFrom(rawStores, 1, Epoch)

\* ---- the arguments the two functions are called with ----
\* bucket catalogs (Object.values(buckets.byType)): distinct hashes
Catalogs ==
  UNION {{[i \in 1..n |-> [hash |-> BucketHash(i),
                            vaultBucket |-> vb[i],
                            accountWide |-> aw[i]]] :
            vb \in [1..n -> {NoVaultBucket, WeaponsHash, ArmorHash, GeneralHash,
                             OtherVaultHash}],
            aw \in [1..n -> BOOLEAN]} : n \in 0..MaxBuckets}

\* item lists: each item in a catalog bucket or in a bucket outside it
ItemLists ==
  UNION {[1..n -> {BucketHash(i) : i \in 1..(MaxBuckets + 1)}] : n \in 0..MaxItems}

\* raw store lists: the vault and characters with their dateLastPlayed
\* (dates at or after the epoch)
RawStoreLists ==
  UNION {[1..n -> [id : {"vault", "character"}, dateLastPlayed : 0..MaxDate]] :
           n \in 0..MaxRawStores}

\* neither function is being called on its own
NoCall == [op |-> "none"]

\* a call of processStore whose processItems has yet to resolve with items
ProcessStoreCall(isVault, catalog, items) ==
  [op |-> "processStore", isVault |-> isVault, catalog |-> catalog,
   items |-> items]

\* a call of findLastPlayedDate
FindLastPlayedDateCall(rawStores) ==
  [op |-> "findLastPlayedDate", rawStores |-> rawStores]

StoreServiceInit ==
  /\ accountValue = NoAccount
  /\ connected = FALSE
  /\ streamState = "active"
  /\ active = 0
  /\ cached = <<>>
  /\ emissions = <<>>
  /\ promises = <<>>
  /\ cycles = <<>>
  /\ stateAccount = NoAccount
  /\ stateStores = <<>>
  /\ requested = NoAccount
  /\ idTracker = 0
  /\ notifications = 0
  /\ hardErrors = 0
  /\ reports = 0
  /\ lastSettled = 0
  /\ settling = <<>>

Init ==
  /\ StoreServiceInit
  /\ pure = NoCall

Next ==
  \/ \E a \in Accounts : getStoresStream(a) /\ UNCHANGED pure
  \/ reloadStores /\ UNCHANGED pure
  \/ loadStores /\ UNCHANGED pure
  \/ \E a \in Accounts : SelectAccount(a) /\ UNCHANGED pure
  \/ \E c \in 1..Len(cycles) :
       \/ \E a \in {NoAccount} \cup Accounts :
            PlatformsResolve(c, a) /\ UNCHANGED pure
       \/ PlatformsReject(c) /\ UNCHANGED pure
       \/ \E f \in Fetches, raw \in RawLists :
            FetchResolve(c, f, raw) /\ UNCHANGED pure
       \/ \E f \in Fetches : FetchReject(c, f) /\ UNCHANGED pure
       \/ \E i \in 1..MaxRecords : ConvertResolve(c, i) /\ UNCHANGED pure
       \/ \E i \in 1..MaxRecords : ConvertReject(c, i) /\ UNCHANGED pure
       \/ Finish(c) /\ UNCHANGED pure
       \/ Settle(c) /\ UNCHANGED pure

Spec == Init /\ [][Next]_vars

\* ---- the two functions on their own ----
InitPure ==
  /\ StoreServiceInit
  /\ \/ \E v \in BOOLEAN, cat \in Catalogs, its \in ItemLists :
          pure = ProcessStoreCall(v, cat, its)
     \/ \E rs \in RawStoreLists : pure = FindLastPlayedDateCall(rs)

\* processItems has resolved with pure.items for a store of the catalog
ProcessItemsThen ==
  /\ pure.op = "processStore"
  /\ pure' = [op |-> "processed", isVault |-> pure.isVault,
              catalog |-> pure.catalog, items |-> pure.items,
              store |-> ProcessedStore(pure.isVault, pure.catalog, pure.items)]
  /\ UNCHANGED serviceVars

FindLastPlayedDate ==
  /\ pure.op = "findLastPlayedDate"
  /\ pure' = [op |-> "found", rawStores |-> pure.rawStores,
              date |-> findLastPlayedDate(pure.rawStores)]
  /\ UNCHANGED serviceVars

NextPure ==
  \/ ProcessItemsThen
  \/ FindLastPlayedDate

SpecPure == InitPure /\ [][NextPure]_vars

\* ---- properties ----
InFlight(c) == cycles[c].outcome = "pending"
AllSettled == \A c \in 1..Len(cycles) : cycles[c].pc = "done"
\* the runs the stream started (the pipeline runs)
ViaStream(c) == cycles[c].via = "stream"
AllViaStream == \A c \in 1..Len(cycles) : ViaStream(c)
EmittedCycles == {emissions[i].cycle : i \in 1..Len(emissions)}

\* C1: the promise of reloadStores resolves to a value the stream emitted
\* after the call, never to the value that was cached when it was called
C1_ReloadResolvesToLaterValue ==
  \A k \in 1..Len(promises) :
    promises[k].state = "resolved" =>
      /\ promises[k].seq > promises[k].atCall
      /\ promises[k].seq <= Len(emissions)
      /\ emissions[promises[k].seq] = promises[k].value
      /\ \A i \in 1..Len(promises[k].cachedAtCall) :
           promises[k].value # promises[k].cachedAtCall[i]

\* a reload called with a cached value, after the only subscribe call (so for
\* the same account), has resolved
C1_Witness ==
  \E k \in 1..Len(promises) :
    /\ promises[k].state = "resolved"
    /\ Len(promises[k].cachedAtCall) = 1
    /\ promises[k].run = 2
    /\ Len(cycles) = 2

\* C2: once the stream has emitted after a reloadStores call, the call's
\* promise is resolved, with the first value emitted after the call
C2_ReloadResolvesWithNextEmission ==
  \A k \in 1..Len(promises) :
    Len(emissions) > promises[k].atCall =>
      /\ promises[k].state = "resolved"
      /\ promises[k].seq = promises[k].atCall + 1

\* C3: every getStoresStream call starts exactly one run, the first call
\* (which connects the stream) and every later one alike
C3_OneRunPerSubscribe ==
  [][(\E a \in Accounts : getStoresStream(a)) => Len(cycles') = Len(cycles) + 1]_vars

\* two subscribe calls with the same account, and no reload, have started
\* two runs
C3_Witness ==
  /\ Len(promises) = 0
  /\ Len(cycles) = 2
  /\ cycles[1].pc = "platforms"
  /\ cycles[2].pc = "platforms"
  /\ cycles[1].streamAccount = cycles[2].streamAccount
  /\ AllViaStream

\* C4: once the stream is connected, every reloadStores call starts exactly
\* one new run, whatever runs are in flight, and ends none of them
C4_OneRunPerReload ==
  [][(Len(promises') = Len(promises) + 1 /\ connected) =>
       /\ Len(cycles') = Len(cycles) + 1
       /\ promises'[Len(promises')].run = Len(cycles')
       /\ \A c \in 1..Len(cycles) : cycles'[c] = cycles[c]]_vars

\* a reload has started a second run while the first is still in flight
C4_Witness ==
  \E k \in 1..Len(promises) :
    /\ promises[k].run = 2
    /\ InFlight(1)
    /\ InFlight(2)

\* C5: a run that begins to load requests the account most recently recorded
\* through getStoresStream when the run started
C5_RunLoadsForRecordedAccount ==
  [][\A c \in 1..Len(cycles') :
       (/\ cycles'[c].via = "stream"
        /\ cycles'[c].pc = "fetching"
        /\ (c > Len(cycles) \/ cycles[c].pc = "platforms"))
         => requested' = IF c > Len(cycles) THEN accountValue'
                         ELSE cycles[c].streamAccount]_vars

\* C6: the stream never fails, and every settled cycle resolved to a store
\* set or to undefined
C6_StreamNeverFails ==
  /\ streamState = "active"
  /\ \A c \in 1..Len(cycles) :
       ~InFlight(c) => cycles[c].result.kind \in {"stores", "undefined"}
  /\ \A k \in 1..Len(promises) : promises[k].state # "rejected"

\* after a failed cycle, a later run has emitted its result
C6_Witness ==
  \E c \in 1..Len(cycles), d \in 1..Len(cycles) :
    /\ c < d
    /\ cycles[c].outcome = "failed"
    /\ ~InFlight(d)
    /\ cached = <<cycles[d].result>>

\* the step in which cycle c enters the catch block
Fails(c) == InFlight(c) /\ cycles'[c].outcome = "failed"

\* C7: a cycle that fails while application state holds a non-empty store
\* set resolves to undefined, shows a notification, dispatches no error and
\* leaves the store set as it is
C7_FailureWithStoresNotifies ==
  [][\A c \in 1..Len(cycles) :
       (Fails(c) /\ Len(stateStores) > 0) =>
         /\ cycles'[c].result.kind = "undefined"
         /\ notifications' = notifications + 1
         /\ hardErrors' = hardErrors
         /\ stateStores' = stateStores]_vars

\* a cycle has failed and notified over a loaded store set
C7_Witness ==
  /\ notifications > 0
  /\ Len(stateStores) > 0
  /\ \E c \in 1..Len(cycles) : cycles[c].outcome = "failed"

\* C8: a cycle that fails while application state holds no store set
\* dispatches the error, shows no notification and resolves to undefined
C8_FailureWithoutStoresErrors ==
  [][\A c \in 1..Len(cycles) :
       (Fails(c) /\ Len(stateStores) = 0) =>
         /\ cycles'[c].result.kind = "undefined"
         /\ hardErrors' = hardErrors + 1
         /\ notifications' = notifications
         /\ stateStores' = stateStores]_vars

\* a cycle has failed with nothing loaded
C8_Witness ==
  /\ hardErrors > 0
  /\ notifications = 0
  /\ Len(stateStores) = 0
  /\ \E c \in 1..Len(cycles) : cycles[c].outcome = "failed"

\* store set s is the whole result of cycle c: one store per non-null raw
\* record of c, in order, every conversion of c finished
WholeResultOf(s, c) ==
  /\ cycles[c].outcome = "ok"
  /\ Compact(cycles[c].raw) \subseteq cycles[c].converted
  /\ s = SelectSeq([i \in 1..Len(cycles[c].raw) |-> processStore(c, i, cycles[c].raw[i])],
                   LAMBDA x : x # <<>>)

\* C9: every published store set (the update dispatch, the emitted and the
\* cached value) is the whole result of one cycle
C9_PublishedSetsAreWhole ==
  /\ stateStores # <<>> => WholeResultOf(stateStores, stateStores[1][1])
  /\ \A i \in 1..Len(emissions) :
       emissions[i].kind = "stores" =>
         WholeResultOf(emissions[i].stores, emissions[i].cycle)
  /\ \A i \in 1..Len(cached) :
       cached[i].kind = "stores" => WholeResultOf(cached[i].stores, cached[i].cycle)

\* two overlapping cycles have both published a non-empty store set
C9_Witness ==
  /\ Len(cached) = 1
  /\ cached[1].kind = "stores"
  /\ Len(cached[1].stores) > 0
  /\ Len(stateStores) > 0
  /\ stateStores[1][1] # cached[1].cycle

\* C10 as claimed: once the cycles have all completed, the cached value is the
\* result of the cycle that completed last
C10_LatestIsLastCompleted ==
  (Len(cycles) >= 2 /\ AllSettled /\ AllViaStream) =>
    cached = <<cycles[lastSettled].result>>

\* the promise of cycle c settled in this step
SettledNow(c) == cycles[c].pc # "done" /\ cycles'[c].pc = "done"

\* a later run of the stream had started before this step: the outer
\* switchMap had left cycle c for it
Superseded(c) == \E d \in (c + 1)..Len(cycles) : ViaStream(d)

\* C10 as amended: when the promise of a cycle settles after a later run of
\* the stream has started, nothing is emitted, nothing is cached and no
\* subscriber is handed anything, whether the later run has completed or not;
\* so the stream emits in start order, and once the cycles have all completed
\* the cached value is the result of the cycle that started last
C10_LatestIsLastStarted ==
  /\ [][\A c \in 1..Len(cycles) :
          (SettledNow(c) /\ Superseded(c)) =>
            /\ emissions' = emissions
            /\ cached' = cached
            /\ promises' = promises]_vars
  /\ [](\A i \in 1..Len(emissions), j \in 1..Len(emissions) :
          i < j => emissions[i].cycle < emissions[j].cycle)
  /\ []((Len(cycles) >= 2 /\ AllSettled /\ AllViaStream) =>
          cached = <<cycles[Len(cycles)].result>>)

\* the earlier-started of two overlapping cycles completed first and was not
\* emitted; the later-started one completed last and is the cached value
\* (the run that refutes C10 as claimed has the other order: the
\* later-started cycle completes first, the earlier-started one last)
C10_Witness ==
  /\ Len(cycles) = 2
  /\ AllSettled
  /\ AllViaStream
  /\ lastSettled = 2
  /\ cycles[1].outcome = "ok"
  /\ cycles[2].outcome = "ok"
  /\ 1 \notin EmittedCycles
  /\ 2 \in EmittedCycles
  /\ cached = <<cycles[2].result>>

\* C11: while the stream is not connected it has started no run, whatever
\* has been called; a getStoresStream call connects it, and on a connected
\* stream it only starts its one run (the source is not subscribed again)
C11_ColdUntilFirstSubscribe ==
  [][/\ ~connected' =>
          (active' = 0 /\ \A c \in 1..Len(cycles') : cycles'[c].via # "stream")
     /\ connected => connected'
     /\ (\E a \in Accounts : getStoresStream(a)) =>
          (connected' /\ Len(cycles') = Len(cycles) + 1)]_vars

\* reloadStores has been called on the stream before any subscribe call
C11_Witness ==
  /\ ~connected
  /\ Len(promises) > 0
  /\ \A c \in 1..Len(cycles) : ~ViaStream(c)

\* C16: when the three fetches have completed, null-like raw records do not
\* make the cycle fail: it goes on to convert the non-null records
C16_NullRecordsAreDropped ==
  [][\A c \in 1..Len(cycles), f \in Fetches, raw \in RawLists :
       (FetchResolve(c, f, raw) /\ cycles[c].fetched \cup {f} = Fetches) =>
         /\ cycles'[c].outcome # "failed"
         /\ cycles'[c].pc = "converting"
         /\ reports' = reports]_vars

\* C17: a cycle converts records and publishes only after all three fetches
\* have resolved; when one of them rejects, whichever resolved before, the
\* cycle ends its fetching as failed: nothing converted, nothing published,
\* undefined returned
C17_AllThreeFetchesFirst ==
  [][\A c \in 1..Len(cycles) :
       /\ cycles'[c].pc = "converting" => cycles'[c].fetched = Fetches
       /\ (InFlight(c) /\ cycles'[c].outcome = "ok") => cycles[c].pc = "converting"
       /\ cycles[c].pc = "fetching" =>
            /\ cycles[c].converted = {}
            /\ cycles'[c].pc = "returned" =>
                 /\ cycles'[c].outcome = "failed"
                 /\ cycles'[c].result.kind = "undefined"
                 /\ cycles'[c].converted = {}
                 /\ stateStores' = stateStores]_vars

\* one cycle is converting after its three fetches, another has failed
C17_Witness ==
  \E c \in 1..Len(cycles), d \in 1..Len(cycles) :
    /\ cycles[c].pc = "converting"
    /\ cycles[c].fetched = Fetches
    /\ cycles[c].converted # {}
    /\ cycles[d].outcome = "failed"

\* C18: a cycle that started without an account and finds none after
\* getPlatforms resolves to undefined quietly: no notification, no error
\* dispatch, no report, no id-tracker reset, no fetch, store set unchanged
C18_NoAccountIsQuiet ==
  [][\A c \in 1..Len(cycles) :
       PlatformsResolve(c, NoAccount) =>
         /\ cycles'[c].outcome = "noaccount"
         /\ cycles'[c].result.kind = "undefined"
         /\ cycles'[c].fetched = {}
         /\ UNCHANGED <<notifications, hardErrors, reports, idTracker,
                        requested, stateStores>>]_vars

\* a cycle has ended without an account while a store set was loaded
C18_Witness ==
  /\ \E c \in 1..Len(cycles) : cycles[c].outcome = "noaccount"
  /\ stateAccount = NoAccount
  /\ Len(stateStores) > 0

\* C19: while a cycle is between its resetIdTracker call and the end of its
\* item processing, no other cycle has reset the id tracker
C19_NoResetDuringProcessing ==
  AllViaStream =>
    \A c \in 1..Len(cycles) :
      cycles[c].pc \in {"fetching", "converting"} => idTracker = c

\* the cycle whose body ended last (0: none)
LastCompleted ==
  IF settling # <<>> THEN settling[Len(settling)] ELSE lastSettled

\* C20: a cycle superseded by a later trigger still dispatches its store set
\* when it succeeds: application state holds the store set of the successful
\* cycle that completed last, whatever the stream has cached
C20_StateHoldsLastCompletedSet ==
  /\ (LastCompleted # 0 /\ cycles[LastCompleted].outcome = "ok") =>
       stateStores = cycles[LastCompleted].result.stores
  /\ stateStores # <<>> =>
       /\ cycles[stateStores[1][1]].outcome = "ok"
       /\ stateStores = cycles[stateStores[1][1]].result.stores

\* both cycles have completed, the earlier-started one last: application
\* state holds its store set, the stream that of the later-started one
C20_Witness ==
  /\ Len(cycles) = 2
  /\ AllSettled
  /\ lastSettled = 1
  /\ cycles[1].outcome = "ok"
  /\ Len(stateStores) > 0
  /\ stateStores = cycles[1].result.stores
  /\ cached = <<cycles[2].result>>
  /\ cached[1].stores # stateStores


\* ---- processStore and findLastPlayedDate (checked under SpecPure) ----
Processed == pure.op = "processed"
ProcessedVault == Processed /\ pure.isVault

CatalogHashes == {pure.catalog[i].hash : i \in 1..Len(pure.catalog)}
DeclaredVaultBuckets ==
  {pure.catalog[i].vaultBucket : i \in 1..Len(pure.catalog)} \ {NoVaultBucket}

\* rank of a bucket in the order the specification describes: the three
\* listed vault buckets first, every other vault bucket after them
ListedFirst(b) ==
  IF indexOf(vaultBucketOrder, b.vaultBucket) = -1
  THEN Len(vaultBucketOrder)
  ELSE indexOf(vaultBucketOrder, b.vaultBucket)

\* C12: building the vault's vaultCounts visits the buckets that declare a
\* vaultBucket in the order Weapons, Armor, General, and only after these the
\* buckets whose vault bucket is none of the three, in catalog order.
C12_OtherVaultBucketsVisitedLast ==
  ProcessedVault =>
    LET declaring ==
          SelectSeq(pure.catalog, LAMBDA b : b.vaultBucket # NoVaultBucket)
    IN pure.store.visit =
         sortBy(declaring, [i \in 1..Len(declaring) |-> ListedFirst(declaring[i])])

\* the items held in all catalog buckets mapped to vault bucket x
ItemsMappedTo(x) ==
  {i \in 1..Len(pure.items) :
     \E k \in 1..Len(pure.catalog) :
       pure.catalog[k].vaultBucket = x /\ pure.items[i] = pure.catalog[k].hash}

\* the first catalog bucket mapped to vault bucket x
FirstMappedTo(x) ==
  pure.catalog[CHOOSE k \in 1..Len(pure.catalog) :
                 /\ pure.catalog[k].vaultBucket = x
                 /\ \A j \in 1..(k - 1) : pure.catalog[j].vaultBucket # x]

\* C13: a processed vault's vaultCounts has an entry for vault bucket X exactly
\* when some catalog bucket declares X as its vaultBucket; the entry's count is
\* the total number of items held in all buckets mapped to X, and its
\* representative is the (first) bucket mapped to X itself when that bucket is
\* accountWide and otherwise the associated vaultBucket X.
C13_VaultCountsSumMappedBuckets ==
  ProcessedVault =>
    /\ DOMAIN pure.store.vaultCounts = DeclaredVaultBuckets
    /\ \A x \in DeclaredVaultBuckets :
         /\ pure.store.vaultCounts[x].count = Cardinality(ItemsMappedTo(x))
         /\ pure.store.vaultCounts[x].bucket =
              IF FirstMappedTo(x).accountWide THEN FirstMappedTo(x).hash ELSE x

\* two buckets mapped to the same vault bucket, one accountWide and one not,
\* each holding an item: the entry counts both
C13_Witness ==
  /\ ProcessedVault
  /\ \E x \in DeclaredVaultBuckets :
       /\ \E j, k \in 1..Len(pure.catalog) :
            /\ pure.catalog[j].vaultBucket = x /\ pure.catalog[j].accountWide
            /\ pure.catalog[k].vaultBucket = x /\ ~pure.catalog[k].accountWide
            /\ \E m, n \in 1..Len(pure.items) :
                 /\ pure.items[m] = pure.catalog[j].hash
                 /\ pure.items[n] = pure.catalog[k].hash
       /\ pure.store.vaultCounts[x].count = 2

ItemLocations == {pure.items[i] : i \in 1..Len(pure.items)}

\* C14 as stated: the bucket mapping of every produced store has exactly N
\* keys, the identifiers of the N catalog buckets, with an empty list for
\* every bucket that holds no item.
C14_KeysAreExactlyTheCatalog ==
  Processed =>
    /\ DOMAIN pure.store.buckets = CatalogHashes
    /\ Cardinality(DOMAIN pure.store.buckets) = Len(pure.catalog)
    /\ \A h \in CatalogHashes \ ItemLocations : pure.store.buckets[h] = <<>>

\* C14 amended: the keys are the catalog's bucket identifiers together with
\* the location identifiers of the items; each key holds the items located
\* there (none for a catalog bucket without items), and there are exactly N
\* keys when every item is located in a catalog bucket.
C14_KeysAreCatalogAndItemLocations ==
  Processed =>
    /\ DOMAIN pure.store.buckets = CatalogHashes \cup ItemLocations
    /\ \A h \in DOMAIN pure.store.buckets :
         pure.store.buckets[h] = SelectSeq(pure.items, LAMBDA x : x = h)
    /\ \A h \in CatalogHashes \ ItemLocations : pure.store.buckets[h] = <<>>
    /\ ItemLocations \subseteq CatalogHashes =>
         Cardinality(DOMAIN pure.store.buckets) = Len(pure.catalog)

\* a catalog bucket without items next to an item located outside the catalog
C14_Witness ==
  /\ Processed
  /\ CatalogHashes \ ItemLocations # {}
  /\ ItemLocations \ CatalogHashes # {}
  /\ Cardinality(DOMAIN pure.store.buckets) = Len(pure.catalog) + 1

CharacterDates ==
  {pure.rawStores[i].dateLastPlayed :
     i \in {k \in 1..Len(pure.rawStores) : pure.rawStores[k].id # "vault"}}

\* C15: findLastPlayedDate returns the maximum dateLastPlayed over the
\* character records only; the vault record never participates, and without
\* a character record the result is the epoch.
C15_LastPlayedIsLatestCharacter ==
  pure.op = "found" =>
    IF CharacterDates = {} THEN pure.date = Epoch
    ELSE /\ pure.date \in CharacterDates
         /\ \A d \in CharacterDates : d <= pure.date

\* two characters played at different times, and a vault record carrying a
\* date later than both
C15_Witness ==
  /\ pure.op = "found"
  /\ Cardinality(CharacterDates) >= 2
  /\ \E i \in 1..Len(pure.rawStores) :
       /\ pure.rawStores[i].id = "vault"
       /\ pure.rawStores[i].dateLastPlayed > pure.date

====
